---- MODULE Spec2Model ----
(***************************************************************************)
(* Model of the test-orchestration engine in src/python-example.py:        *)
(* test() submits run_test to the background event loop and blocks on its  *)
(* future; run_test posts /start, fans run_test_case out under a           *)
(* semaphore (gather_with_max_concurrency), and posts /end; run_test_case  *)
(* invokes the function-under-test, posts /results and fans               *)
(* evaluate_output out under a second, per-test-case semaphore.            *)
(*                                                                         *)
(* One action is one step of one coroutine between two suspension points   *)
(* (an await that really yields: a telemetry post, user code, a semaphore  *)
(* wait, a gather).  User code ends by returning or by raising an          *)
(* Exception, the class the except clauses catch.                          *)
(***************************************************************************)
EXTENDS Integers, Sequences, FiniteSets

\* ------------------------------------------------------------------ bounds
NumTestCases == 2
NumEvaluators == 2
MaxLimit == 2
MaxRuns == 2

TestCases == 1..NumTestCases
EvaluatorIdx == 1..NumEvaluators

\* ------------------------------------------------------------- input data
\* Python's None, as a value of the model.
None == "None"

\* The id passed to test().
test_id == "study-guide-outlines"

\* Evaluators a caller may supply: an id string and whether evaluate is a
\* coroutine function.  The id is any string, the empty one included.
EvaluatorPool ==
  << [id |-> "coherence", is_coroutine |-> TRUE, threshold |-> None],
     [id |-> "relevance", is_coroutine |-> FALSE, threshold |-> "Threshold(gte=0.2)"],
     [id |-> "", is_coroutine |-> FALSE, threshold |-> None],
     [id |-> "has-substrings", is_coroutine |-> FALSE, threshold |-> "Threshold(gte=1)"] >>

\* The evaluator lists of length NumEvaluators that start with the first
\* pool entry and have pairwise different ids.
EvaluatorLists ==
  { s \in [EvaluatorIdx -> 1..Len(EvaluatorPool)] :
      /\ s[1] = 1
      /\ \A i, j \in EvaluatorIdx : i < j => s[i] < s[j]
      /\ \A i \in EvaluatorIdx : s[i] <= NumEvaluators + 1 }

\* What fn returns for test case t when it returns a value: an empty string
\* for the first test case, a text for the others.
fn_output(t) == IF t = 1 THEN "" ELSE "outline"

\* What the function-under-test may return for test case t: None or its value.
Outputs(t) == {None, fn_output(t)}

\* The Evaluation a pool entry returns when it returns one.
EvaluationOf(e) == [score |-> 1, threshold |-> e.threshold]

\* Optional[Evaluation]: {} is None, {e} is the Evaluation e.
OptEvaluations(e) == {{}, {EvaluationOf(e)}}

\* cached_hash of test case t: the md5 of distinct inputs, taken as distinct.
cached_hash(t) == t

\* Python truthiness of an Optional[str].
Truthy(s) == s /= None /\ s /= ""

\* Limits that asyncio.Semaphore does not serve: a negative value raises
\* ValueError, zero never admits anyone.
InvalidLimits == {0 - 1, 0}

VARIABLES
  max_test_case_concurrency,  \* argument of test()
  max_evaluator_concurrency,  \* argument of test()
  fn_is_coroutine,            \* inspect.iscoroutinefunction(fn)
  evaluators,                 \* argument of test(): indexes into EvaluatorPool
  collector,                  \* "up": every post succeeds; "flaky": a post may
                              \* raise; "results-down": a /results post may raise
  run_pc,                     \* position of run_test
  caller,                     \* the thread inside test(): future.result()
  sem_value,                  \* test-case semaphore: _value
  sem_waiters,                \* test-case semaphore: _waiters (FIFO)
  tc_pc,                      \* position of each run_test_case unit
  output,                     \* run_test_case's local `output`
  fn_calls,                   \* history: invocations of fn per test case
  fn_raised,                  \* history: fn threw for the test case
  ev_sem_value,               \* evaluator semaphore of each test case: _value
  ev_sem_waiters,             \* evaluator semaphore of each test case: _waiters
  ev_pc,                      \* position of each evaluate_output unit
  evaluation,                 \* evaluate_output's local `evaluation`
  ev_calls,                   \* history: invocations of evaluator.evaluate
  ev_raised,                  \* history: the evaluator threw
  tc_ctx,                     \* contextvars context of each run_test_case task
  ev_ctx,                     \* contextvars context of each evaluate_output task
  fn_seen,                    \* history: the context fn ran in, per test case
  ev_seen,                    \* history: the context evaluator.evaluate ran in
  log                         \* the posts the collector has received, in order

config == << max_test_case_concurrency, max_evaluator_concurrency,
             fn_is_coroutine, evaluators, collector >>
tc_vars == << sem_value, sem_waiters, tc_pc, output, fn_calls, fn_raised,
             tc_ctx, fn_seen >>
ev_vars == << ev_sem_value, ev_sem_waiters, ev_pc, evaluation, ev_calls, ev_raised,
             ev_ctx, ev_seen >>
vars == << config, run_pc, caller, tc_vars, ev_vars, log >>

Evaluator(i) == EvaluatorPool[evaluators[i]]

\* The jobs on the loop's default thread pool: loop.run_in_executor runs the
\* blocking fn (<<t, 0>>) and the blocking evaluators (<<t, i>>) there.
executor ==
  {<<t, 0>> : t \in {u \in TestCases : tc_pc[u] = "Invoking" /\ ~fn_is_coroutine}}
  \cup {p \in TestCases \X EvaluatorIdx :
          ev_pc[p[1]][p[2]] = "Evaluating" /\ ~Evaluator(p[2]).is_coroutine}

\* ------------------------------------------------------------ contextvars
\* A context: {} while current_test_id_var and current_test_case_var are
\* unset, else the one binding of the two.
EmptyContext == {}

\* The context after run_test_case has set both variables for test case t.
RunContext(t) == {[current_test_id |-> test_id, current_test_case |-> t]}

\* asyncio copies the creating task's context into a new task.
CopyContext(ctx) == ctx

\* loop.run_in_executor(None, ctx.run, f, ...) with ctx = copy_context():
\* the worker thread runs f in the copy.  A call without ctx.run leaves the
\* worker in its own, empty context.
ExecutorContext_NoCtxRun(ctx) == EmptyContext

ExecutorContext(ctx) == CopyContext(ctx)

\* The context user code runs in: the task's own when it is a coroutine
\* function, the executor's otherwise.
InvocationContext(is_coroutine, ctx) ==
  IF is_coroutine THEN ctx ELSE ExecutorContext(ctx)

\* ---------------------------------------------------------------- payloads
StartPayload == [path |-> "/start", testExternalId |-> test_id]
EndPayload == [path |-> "/end", testExternalId |-> test_id]

ResultsPayload(t) ==
  [path |-> "/results", testExternalId |-> test_id,
   testCaseHash |-> cached_hash(t), testCaseOutput |-> output[t]]

EvalsPayload(t, i, e) ==
  IF Truthy(e.threshold)
  THEN [path |-> "/evals", testExternalId |-> test_id,
        evaluatorExternalId |-> Evaluator(i).id,
        testCaseHash |-> cached_hash(t), score |-> e.score,
        threshold |-> e.threshold]
  ELSE [path |-> "/evals", testExternalId |-> test_id,
        evaluatorExternalId |-> Evaluator(i).id,
        testCaseHash |-> cached_hash(t), score |-> e.score]

\* ErrorPayload with evaluatorExternalId always in the payload.
ErrorPayload_AlwaysEvaluator(t, evaluator_id) ==
  [path |-> "/errors", testExternalId |-> test_id,
   testCaseHash |-> cached_hash(t), evaluatorExternalId |-> evaluator_id]

\* send_error: evaluatorExternalId is added only when evaluator_id is truthy.
ErrorPayload(t, evaluator_id) ==
  IF Truthy(evaluator_id)
  THEN [path |-> "/errors", testExternalId |-> test_id,
        testCaseHash |-> cached_hash(t), evaluatorExternalId |-> evaluator_id]
  ELSE [path |-> "/errors", testExternalId |-> test_id,
        testCaseHash |-> cached_hash(t)]

\* Outcomes of `await client.post(...)`: TRUE returns, FALSE raises.
PostOutcomes == IF collector = "up" THEN {TRUE} ELSE BOOLEAN

\* ------------------------------------------------------ the semaphore gate
\* gather starts its n tasks in order and each runs to its first suspension
\* before anything else touches the new semaphore: the first `limit` units
\* take a slot in sem_coro, the others queue on the semaphore in order.
Admitted(limit, n) == {u \in 1..n : u <= limit}
Queued(limit, n) == [k \in 1..(IF n > limit THEN n - limit ELSE 0) |-> limit + k]
SlotsLeft(limit, n) == IF n > limit THEN 0 ELSE limit - n

\* ------------------------------------------------------------------- Init
TcTerminal == {"Done", "Raised"}
EvTerminal == {"Done", "Raised"}

InitRun ==
  /\ fn_is_coroutine \in BOOLEAN
  /\ evaluators \in EvaluatorLists
  /\ run_pc = "NotStarted"
  /\ caller = "blocked"
  /\ sem_value = 0
  /\ sem_waiters = << >>
  /\ tc_pc = [t \in TestCases |-> "NotCreated"]
  /\ output = [t \in TestCases |-> None]
  /\ fn_calls = [t \in TestCases |-> 0]
  /\ fn_raised = [t \in TestCases |-> FALSE]
  /\ ev_sem_value = [t \in TestCases |-> 0]
  /\ ev_sem_waiters = [t \in TestCases |-> << >>]
  /\ ev_pc = [t \in TestCases |-> [i \in EvaluatorIdx |-> "NotCreated"]]
  /\ evaluation = [t \in TestCases |-> [i \in EvaluatorIdx |-> {}]]
  /\ ev_calls = [t \in TestCases |-> [i \in EvaluatorIdx |-> 0]]
  /\ ev_raised = [t \in TestCases |-> [i \in EvaluatorIdx |-> FALSE]]
  /\ tc_ctx = [t \in TestCases |-> EmptyContext]
  /\ ev_ctx = [t \in TestCases |-> [i \in EvaluatorIdx |-> EmptyContext]]
  /\ fn_seen = [t \in TestCases |-> EmptyContext]
  /\ ev_seen = [t \in TestCases |-> [i \in EvaluatorIdx |-> EmptyContext]]
  /\ log = << >>

\* test() called with limits >= 1 and a collector that answers every post.
Init ==
  /\ max_test_case_concurrency \in 1..MaxLimit
  /\ max_evaluator_concurrency \in 1..MaxLimit
  /\ collector = "up"
  /\ InitRun

\* test() called with any limits, the invalid ones included.
InitConfig ==
  /\ max_test_case_concurrency \in InvalidLimits \cup (1..MaxLimit)
  /\ max_evaluator_concurrency \in InvalidLimits \cup (1..MaxLimit)
  /\ collector = "up"
  /\ InitRun

\* test() called with limits >= 1 while the collector may fail any post.
InitTelemetry ==
  /\ max_test_case_concurrency \in 1..MaxLimit
  /\ max_evaluator_concurrency \in 1..MaxLimit
  /\ collector = "flaky"
  /\ InitRun

\* test() called with limits >= 1 while the collector fails /results posts.
InitResultsDown ==
  /\ max_test_case_concurrency \in 1..MaxLimit
  /\ max_evaluator_concurrency \in 1..MaxLimit
  /\ collector = "results-down"
  /\ InitRun

\* test() called by a caller that will call it again, with both limits 1:
\* inside a run one unit runs at a time.
InitRuns ==
  /\ max_test_case_concurrency = 1
  /\ max_evaluator_concurrency = 1
  /\ collector = "up"
  /\ InitRun

\* ------------------------------------------------------------- run_test
\* gather_with_max_concurrency(max_test_case_concurrency, run_test_case...)
\* with a limit >= 0: the semaphore and the units, the admitted ones inside
\* run_test_case at the await of fn.
GatherTestCases ==
  /\ sem_value' = SlotsLeft(max_test_case_concurrency, NumTestCases)
  /\ sem_waiters' = Queued(max_test_case_concurrency, NumTestCases)
  /\ tc_pc' = [t \in TestCases |->
                 IF t \in Admitted(max_test_case_concurrency, NumTestCases)
                 THEN "Invoking" ELSE "Waiting"]
  /\ fn_calls' = [t \in TestCases |->
                    IF t \in Admitted(max_test_case_concurrency, NumTestCases)
                    THEN 1 ELSE 0]
  /\ tc_ctx' = [t \in TestCases |->
                  IF t \in Admitted(max_test_case_concurrency, NumTestCases)
                  THEN RunContext(t) ELSE CopyContext(EmptyContext)]
  /\ fn_seen' = [t \in TestCases |->
                   IF t \in Admitted(max_test_case_concurrency, NumTestCases)
                   THEN InvocationContext(fn_is_coroutine, RunContext(t))
                   ELSE EmptyContext]

\* gather_with_max_concurrency(max_evaluator_concurrency, evaluate_output...)
\* of test case t with a limit >= 0: the semaphore and the units, the
\* admitted ones inside evaluate_output at the await of evaluator.evaluate.
GatherEvaluators(t) ==
  /\ ev_sem_value' = [ev_sem_value EXCEPT ![t] =
       SlotsLeft(max_evaluator_concurrency, NumEvaluators)]
  /\ ev_sem_waiters' = [ev_sem_waiters EXCEPT ![t] =
       Queued(max_evaluator_concurrency, NumEvaluators)]
  /\ ev_pc' = [ev_pc EXCEPT ![t] = [i \in EvaluatorIdx |->
       IF i \in Admitted(max_evaluator_concurrency, NumEvaluators)
       THEN "Evaluating" ELSE "Waiting"]]
  /\ ev_calls' = [ev_calls EXCEPT ![t] = [i \in EvaluatorIdx |->
       IF i \in Admitted(max_evaluator_concurrency, NumEvaluators)
       THEN 1 ELSE 0]]
  /\ ev_ctx' = [ev_ctx EXCEPT ![t] = [i \in EvaluatorIdx |-> CopyContext(tc_ctx[t])]]
  /\ ev_seen' = [ev_seen EXCEPT ![t] = [i \in EvaluatorIdx |->
       IF i \in Admitted(max_evaluator_concurrency, NumEvaluators)
       THEN InvocationContext(Evaluator(i).is_coroutine, CopyContext(tc_ctx[t]))
       ELSE EmptyContext]]

\* RunTestStart with the /start post not awaited: the fan-out starts while
\* the post is still in flight.
RunTestStart_NotAwaited(ok) ==
  /\ run_pc = "NotStarted"
  /\ run_pc' = "Started"
  /\ GatherTestCases
  /\ UNCHANGED << config, caller, output, fn_raised, ev_vars, log >>

\* run_test up to its gather: the /start post completes; then
\* gather_with_max_concurrency builds Semaphore(max_test_case_concurrency)
\* (ValueError when negative) and one task per test case; the admitted units
\* enter run_test_case and invoke fn.  A raised post or ValueError leaves
\* run_test, and future.result() re-raises it in test().
RunTestStart(ok) ==
  /\ run_pc = "NotStarted"
  /\ IF ~ok
     THEN /\ run_pc' = "Raised"
          /\ caller' = "raised"
          /\ UNCHANGED << tc_vars, log >>
     ELSE /\ log' = Append(log, StartPayload)
          /\ IF max_test_case_concurrency < 0
             THEN /\ run_pc' = "Raised"
                  /\ caller' = "raised"
                  /\ UNCHANGED tc_vars
             ELSE /\ run_pc' = "Started"
                  /\ GatherTestCases
                  /\ UNCHANGED << caller, output, fn_raised >>
  /\ UNCHANGED << config, ev_vars >>

\* SemCoroWake without the test for a free slot.
SemCoroWake_NoSlotTest(t) ==
  /\ tc_pc[t] = "Waiting"
  /\ sem_waiters /= << >>
  /\ Head(sem_waiters) = t
  /\ sem_value' = sem_value - 1
  /\ sem_waiters' = Tail(sem_waiters)
  /\ tc_pc' = [tc_pc EXCEPT ![t] = "Invoking"]
  /\ fn_calls' = [fn_calls EXCEPT ![t] = @ + 1]
  /\ tc_ctx' = [tc_ctx EXCEPT ![t] = RunContext(t)]
  /\ fn_seen' = [fn_seen EXCEPT ![t] = InvocationContext(fn_is_coroutine, RunContext(t))]
  /\ UNCHANGED << config, run_pc, caller, output, fn_raised, ev_vars, log >>

\* Semaphore.release woke the first waiter of the test-case gate: it takes
\* the slot, enters run_test_case and invokes fn.
SemCoroWake(t) ==
  /\ tc_pc[t] = "Waiting"
  /\ sem_waiters /= << >>
  /\ Head(sem_waiters) = t
  /\ sem_value > 0
  /\ sem_value' = sem_value - 1
  /\ sem_waiters' = Tail(sem_waiters)
  /\ tc_pc' = [tc_pc EXCEPT ![t] = "Invoking"]
  /\ fn_calls' = [fn_calls EXCEPT ![t] = @ + 1]
  /\ tc_ctx' = [tc_ctx EXCEPT ![t] = RunContext(t)]
  /\ fn_seen' = [fn_seen EXCEPT ![t] = InvocationContext(fn_is_coroutine, RunContext(t))]
  /\ UNCHANGED << config, run_pc, caller, output, fn_raised, ev_vars, log >>

\* FnReturn with the semaphore held around fn only: the slot is given back
\* as soon as fn has returned.
FnReturn_ReleasesEarly(t, v) ==
  /\ tc_pc[t] = "Invoking"
  /\ output' = [output EXCEPT ![t] = v]
  /\ tc_pc' = [tc_pc EXCEPT ![t] = IF v = None THEN "Done" ELSE "Completed"]
  /\ sem_value' = sem_value + 1
  /\ UNCHANGED << config, run_pc, caller, sem_waiters, fn_calls, fn_raised,
                  tc_ctx, fn_seen, ev_vars, log >>

\* fn returned v.  `if output is None: return` ends the unit and sem_coro
\* releases the slot; any other value goes on to the /results post.
FnReturn(t, v) ==
  /\ tc_pc[t] = "Invoking"
  /\ output' = [output EXCEPT ![t] = v]
  /\ IF v = None
     THEN /\ tc_pc' = [tc_pc EXCEPT ![t] = "Done"]
          /\ sem_value' = sem_value + 1
     ELSE /\ tc_pc' = [tc_pc EXCEPT ![t] = "Completed"]
          /\ UNCHANGED sem_value
  /\ UNCHANGED << config, run_pc, caller, sem_waiters, fn_calls, fn_raised,
                  tc_ctx, fn_seen, ev_vars, log >>

\* FnRaise without the try/except around fn: the exception leaves
\* run_test_case unreported.
FnRaise_Uncaught(t) ==
  /\ tc_pc[t] = "Invoking"
  /\ fn_raised' = [fn_raised EXCEPT ![t] = TRUE]
  /\ tc_pc' = [tc_pc EXCEPT ![t] = "Raised"]
  /\ sem_value' = sem_value + 1
  /\ UNCHANGED << config, run_pc, caller, sem_waiters, output, fn_calls,
                  tc_ctx, fn_seen, ev_vars, log >>

\* fn raised an Exception: the except clause starts send_error.
FnRaise(t) ==
  /\ tc_pc[t] = "Invoking"
  /\ fn_raised' = [fn_raised EXCEPT ![t] = TRUE]
  /\ tc_pc' = [tc_pc EXCEPT ![t] = "Failed"]
  /\ UNCHANGED << config, run_pc, caller, sem_value, sem_waiters, output,
                  fn_calls, tc_ctx, fn_seen, ev_vars, log >>

\* send_error(evaluator_id=None) completes.  Posted: output is None, so the
\* unit returns.  Raised: the exception leaves run_test_case and gather keeps
\* it.  Either way sem_coro releases the slot.
PostFnError(t, ok) ==
  /\ tc_pc[t] = "Failed"
  /\ IF ok
     THEN /\ log' = Append(log, ErrorPayload(t, None))
          /\ tc_pc' = [tc_pc EXCEPT ![t] = "Done"]
     ELSE /\ tc_pc' = [tc_pc EXCEPT ![t] = "Raised"]
          /\ UNCHANGED log
  /\ sem_value' = sem_value + 1
  /\ UNCHANGED << config, run_pc, caller, sem_waiters, output, fn_calls,
                  fn_raised, tc_ctx, fn_seen, ev_vars >>

\* PostResults with the /results post not awaited: the evaluators start
\* while the post is still in flight.
PostResults_NotAwaited(t, ok) ==
  /\ tc_pc[t] = "Completed"
  /\ ok
  /\ tc_pc' = [tc_pc EXCEPT ![t] = "Evaluating"]
  /\ GatherEvaluators(t)
  /\ UNCHANGED << config, run_pc, caller, sem_value, sem_waiters, output,
                  fn_calls, fn_raised, tc_ctx, fn_seen, evaluation, ev_raised, log >>

\* PostResults with the post's exception swallowed: the evaluators run
\* whether the /results event arrived or not.
PostResults_BestEffort(t, ok) ==
  /\ tc_pc[t] = "Completed"
  /\ log' = IF ok THEN Append(log, ResultsPayload(t)) ELSE log
  /\ tc_pc' = [tc_pc EXCEPT ![t] = "Evaluating"]
  /\ GatherEvaluators(t)
  /\ UNCHANGED << config, run_pc, caller, sem_value, sem_waiters, output, fn_calls,
                  fn_raised, tc_ctx, fn_seen, evaluation, ev_raised >>

\* The /results post completes; then gather_with_max_concurrency builds
\* Semaphore(max_evaluator_concurrency) (ValueError when negative) and one
\* task per evaluator; the admitted units enter evaluate_output and invoke
\* their evaluator.  A raised post or ValueError leaves run_test_case.
PostResults(t, ok) ==
  /\ tc_pc[t] = "Completed"
  /\ IF ~ok
     THEN /\ tc_pc' = [tc_pc EXCEPT ![t] = "Raised"]
          /\ sem_value' = sem_value + 1
          /\ UNCHANGED << log, ev_sem_value, ev_sem_waiters, ev_pc, ev_calls,
                          ev_ctx, ev_seen >>
     ELSE /\ log' = Append(log, ResultsPayload(t))
          /\ IF max_evaluator_concurrency < 0
             THEN /\ tc_pc' = [tc_pc EXCEPT ![t] = "Raised"]
                  /\ sem_value' = sem_value + 1
                  /\ UNCHANGED << ev_sem_value, ev_sem_waiters, ev_pc, ev_calls,
                                  ev_ctx, ev_seen >>
             ELSE /\ tc_pc' = [tc_pc EXCEPT ![t] = "Evaluating"]
                  /\ GatherEvaluators(t)
                  /\ UNCHANGED sem_value
  /\ UNCHANGED << config, run_pc, caller, sem_waiters, output, fn_calls,
                  fn_raised, tc_ctx, fn_seen, evaluation, ev_raised >>

\* EvSemCoroWake without the test for a free evaluator slot.
EvSemCoroWake_NoSlotTest(t, i) ==
  /\ ev_pc[t][i] = "Waiting"
  /\ ev_sem_waiters[t] /= << >>
  /\ Head(ev_sem_waiters[t]) = i
  /\ ev_sem_value' = [ev_sem_value EXCEPT ![t] = @ - 1]
  /\ ev_sem_waiters' = [ev_sem_waiters EXCEPT ![t] = Tail(@)]
  /\ ev_pc' = [ev_pc EXCEPT ![t][i] = "Evaluating"]
  /\ ev_calls' = [ev_calls EXCEPT ![t][i] = @ + 1]
  /\ ev_seen' = [ev_seen EXCEPT ![t][i] =
       InvocationContext(Evaluator(i).is_coroutine, ev_ctx[t][i])]
  /\ UNCHANGED << config, run_pc, caller, tc_vars, evaluation, ev_raised, ev_ctx, log >>

\* ------------------------------------------------------ evaluate_output
\* Semaphore.release woke the first waiter of test case t's evaluator gate:
\* it takes the slot, enters evaluate_output and invokes its evaluator.
EvSemCoroWake(t, i) ==
  /\ ev_pc[t][i] = "Waiting"
  /\ ev_sem_waiters[t] /= << >>
  /\ Head(ev_sem_waiters[t]) = i
  /\ ev_sem_value[t] > 0
  /\ ev_sem_value' = [ev_sem_value EXCEPT ![t] = @ - 1]
  /\ ev_sem_waiters' = [ev_sem_waiters EXCEPT ![t] = Tail(@)]
  /\ ev_pc' = [ev_pc EXCEPT ![t][i] = "Evaluating"]
  /\ ev_calls' = [ev_calls EXCEPT ![t][i] = @ + 1]
  /\ ev_seen' = [ev_seen EXCEPT ![t][i] =
       InvocationContext(Evaluator(i).is_coroutine, ev_ctx[t][i])]
  /\ UNCHANGED << config, run_pc, caller, tc_vars, evaluation, ev_raised, ev_ctx, log >>

\* EvaluateReturn with an absent evaluation handled as a failure of the
\* evaluator: send_error is started for it.
EvaluateReturn_AbsentIsError(t, i, r) ==
  /\ ev_pc[t][i] = "Evaluating"
  /\ evaluation' = [evaluation EXCEPT ![t][i] = r]
  /\ IF r = {}
     THEN ev_pc' = [ev_pc EXCEPT ![t][i] = "Failed"]
     ELSE ev_pc' = [ev_pc EXCEPT ![t][i] = "Completed"]
  /\ UNCHANGED << config, run_pc, caller, tc_vars, ev_sem_value, ev_sem_waiters,
                  ev_calls, ev_raised, ev_ctx, ev_seen, log >>

\* evaluator.evaluate returned r.  `if evaluation is None: return` ends the
\* unit and releases the slot; an Evaluation goes on to the /evals post.
EvaluateReturn(t, i, r) ==
  /\ ev_pc[t][i] = "Evaluating"
  /\ evaluation' = [evaluation EXCEPT ![t][i] = r]
  /\ IF r = {}
     THEN /\ ev_pc' = [ev_pc EXCEPT ![t][i] = "Done"]
          /\ ev_sem_value' = [ev_sem_value EXCEPT ![t] = @ + 1]
     ELSE /\ ev_pc' = [ev_pc EXCEPT ![t][i] = "Completed"]
          /\ UNCHANGED ev_sem_value
  /\ UNCHANGED << config, run_pc, caller, tc_vars, ev_sem_waiters, ev_calls,
                  ev_raised, ev_ctx, ev_seen, log >>

\* evaluator.evaluate raised an Exception: the except clause starts send_error.
EvaluateRaise(t, i) ==
  /\ ev_pc[t][i] = "Evaluating"
  /\ ev_raised' = [ev_raised EXCEPT ![t][i] = TRUE]
  /\ ev_pc' = [ev_pc EXCEPT ![t][i] = "Failed"]
  /\ UNCHANGED << config, run_pc, caller, tc_vars, ev_sem_value, ev_sem_waiters,
                  evaluation, ev_calls, ev_ctx, ev_seen, log >>

\* send_error(evaluator_id=evaluator.id) completes; evaluation is None, so
\* the unit returns, or the post's exception leaves evaluate_output.
PostEvaluatorError(t, i, ok) ==
  /\ ev_pc[t][i] = "Failed"
  /\ IF ok
     THEN /\ log' = Append(log, ErrorPayload(t, Evaluator(i).id))
          /\ ev_pc' = [ev_pc EXCEPT ![t][i] = "Done"]
     ELSE /\ ev_pc' = [ev_pc EXCEPT ![t][i] = "Raised"]
          /\ UNCHANGED log
  /\ ev_sem_value' = [ev_sem_value EXCEPT ![t] = @ + 1]
  /\ UNCHANGED << config, run_pc, caller, tc_vars, ev_sem_waiters, evaluation,
                  ev_calls, ev_raised, ev_ctx, ev_seen >>

\* PostEvals that keeps the unit at the post after a success, so that the
\* post is made again.
PostEvals_Repeated(t, i, ok) ==
  /\ ev_pc[t][i] = "Completed"
  /\ Len(log) < 2 + NumTestCases * (1 + NumEvaluators) + 1
  /\ IF ok
     THEN /\ log' = Append(log, EvalsPayload(t, i, CHOOSE e \in evaluation[t][i] : TRUE))
          /\ \E again \in BOOLEAN :
               IF again
               THEN UNCHANGED << ev_pc, ev_sem_value >>
               ELSE /\ ev_pc' = [ev_pc EXCEPT ![t][i] = "Done"]
                    /\ ev_sem_value' = [ev_sem_value EXCEPT ![t] = @ + 1]
     ELSE /\ ev_pc' = [ev_pc EXCEPT ![t][i] = "Raised"]
          /\ ev_sem_value' = [ev_sem_value EXCEPT ![t] = @ + 1]
          /\ UNCHANGED log
  /\ UNCHANGED << config, run_pc, caller, tc_vars, ev_sem_waiters, evaluation,
                  ev_calls, ev_raised, ev_ctx, ev_seen >>

\* The /evals post completes and the unit ends.
PostEvals(t, i, ok) ==
  /\ ev_pc[t][i] = "Completed"
  /\ IF ok
     THEN /\ log' = Append(log, EvalsPayload(t, i, CHOOSE e \in evaluation[t][i] : TRUE))
          /\ ev_pc' = [ev_pc EXCEPT ![t][i] = "Done"]
     ELSE /\ ev_pc' = [ev_pc EXCEPT ![t][i] = "Raised"]
          /\ UNCHANGED log
  /\ ev_sem_value' = [ev_sem_value EXCEPT ![t] = @ + 1]
  /\ UNCHANGED << config, run_pc, caller, tc_vars, ev_sem_waiters, evaluation,
                  ev_calls, ev_raised, ev_ctx, ev_seen >>

\* --------------------------------------------------------------- barriers
\* EvaluatorsGathered with sem_coro leaving the semaphore unreleased.
EvaluatorsGathered_NoRelease(t) ==
  /\ tc_pc[t] = "Evaluating"
  /\ \A i \in EvaluatorIdx : ev_pc[t][i] \in EvTerminal
  /\ tc_pc' = [tc_pc EXCEPT ![t] = "Done"]
  /\ UNCHANGED << config, run_pc, caller, sem_value, sem_waiters, output, fn_calls,
                  fn_raised, tc_ctx, fn_seen, ev_vars, log >>

\* asyncio.gather(..., return_exceptions=True) of the evaluator units: done
\* when every unit has ended, whether it returned or raised.  run_test_case
\* returns and sem_coro releases the test-case slot.
EvaluatorsGathered(t) ==
  /\ tc_pc[t] = "Evaluating"
  /\ \A i \in EvaluatorIdx : ev_pc[t][i] \in EvTerminal
  /\ tc_pc' = [tc_pc EXCEPT ![t] = "Done"]
  /\ sem_value' = sem_value + 1
  /\ UNCHANGED << config, run_pc, caller, sem_waiters, output, fn_calls,
                  fn_raised, tc_ctx, fn_seen, ev_vars, log >>

\* TestCasesGathered returning at the first unit that ends instead of the last.
TestCasesGathered_FirstCompleted ==
  /\ run_pc = "Started"
  /\ \E t \in TestCases : tc_pc[t] \in TcTerminal
  /\ run_pc' = "Ending"
  /\ UNCHANGED << config, caller, tc_vars, ev_vars, log >>

\* TestCasesGathered as asyncio.gather does without return_exceptions=True:
\* the first unit that raises ends the wait and its exception leaves run_test.
TestCasesGathered_Propagate ==
  /\ run_pc = "Started"
  /\ IF \E t \in TestCases : tc_pc[t] = "Raised"
     THEN /\ run_pc' = "Raised"
          /\ caller' = "raised"
     ELSE /\ \A t \in TestCases : tc_pc[t] \in TcTerminal
          /\ run_pc' = "Ending"
          /\ UNCHANGED caller
  /\ UNCHANGED << config, tc_vars, ev_vars, log >>

\* asyncio.gather(..., return_exceptions=True) of the test-case units;
\* run_test goes on to the /end post.
TestCasesGathered ==
  /\ run_pc = "Started"
  /\ \A t \in TestCases : tc_pc[t] \in TcTerminal
  /\ run_pc' = "Ending"
  /\ UNCHANGED << config, caller, tc_vars, ev_vars, log >>

\* The /end post completes: run_test returns and future.result() returns in
\* test(), or the post's exception is re-raised there.
PostEnd(ok) ==
  /\ run_pc = "Ending"
  /\ IF ok
     THEN /\ log' = Append(log, EndPayload)
          /\ run_pc' = "Ended"
          /\ caller' = "returned"
     ELSE /\ run_pc' = "Raised"
          /\ caller' = "raised"
          /\ UNCHANGED log
  /\ UNCHANGED << config, tc_vars, ev_vars >>

\* ------------------------------------------------------------ the caller
\* TestAgain with a test() that does not wait for the future of run_test.
TestAgain_NoResult ==
  /\ caller \in {"blocked", "returned"}
  /\ run_pc /= "NotStarted"
  /\ Cardinality({j \in 1..Len(log) : log[j].path = "/start"}) < MaxRuns
  /\ caller' = "blocked"
  /\ run_pc' = "NotStarted"
  /\ sem_value' = 0
  /\ sem_waiters' = << >>
  /\ tc_pc' = [t \in TestCases |-> "NotCreated"]
  /\ output' = [t \in TestCases |-> None]
  /\ fn_calls' = [t \in TestCases |-> 0]
  /\ fn_raised' = [t \in TestCases |-> FALSE]
  /\ ev_sem_value' = [t \in TestCases |-> 0]
  /\ ev_sem_waiters' = [t \in TestCases |-> << >>]
  /\ ev_pc' = [t \in TestCases |-> [i \in EvaluatorIdx |-> "NotCreated"]]
  /\ evaluation' = [t \in TestCases |-> [i \in EvaluatorIdx |-> {}]]
  /\ ev_calls' = [t \in TestCases |-> [i \in EvaluatorIdx |-> 0]]
  /\ ev_raised' = [t \in TestCases |-> [i \in EvaluatorIdx |-> FALSE]]
  /\ tc_ctx' = [t \in TestCases |-> EmptyContext]
  /\ ev_ctx' = [t \in TestCases |-> [i \in EvaluatorIdx |-> EmptyContext]]
  /\ fn_seen' = [t \in TestCases |-> EmptyContext]
  /\ ev_seen' = [t \in TestCases |-> [i \in EvaluatorIdx |-> EmptyContext]]
  /\ UNCHANGED << config, log >>

\* test() has returned and the caller calls it again with the same
\* arguments: a new run on the same loop and the same collector, with
\* semaphores, units and locals of its own.
TestAgain ==
  /\ caller = "returned"
  /\ Cardinality({j \in 1..Len(log) : log[j].path = "/start"}) < MaxRuns
  /\ caller' = "blocked"
  /\ run_pc' = "NotStarted"
  /\ sem_value' = 0
  /\ sem_waiters' = << >>
  /\ tc_pc' = [t \in TestCases |-> "NotCreated"]
  /\ output' = [t \in TestCases |-> None]
  /\ fn_calls' = [t \in TestCases |-> 0]
  /\ fn_raised' = [t \in TestCases |-> FALSE]
  /\ ev_sem_value' = [t \in TestCases |-> 0]
  /\ ev_sem_waiters' = [t \in TestCases |-> << >>]
  /\ ev_pc' = [t \in TestCases |-> [i \in EvaluatorIdx |-> "NotCreated"]]
  /\ evaluation' = [t \in TestCases |-> [i \in EvaluatorIdx |-> {}]]
  /\ ev_calls' = [t \in TestCases |-> [i \in EvaluatorIdx |-> 0]]
  /\ ev_raised' = [t \in TestCases |-> [i \in EvaluatorIdx |-> FALSE]]
  /\ tc_ctx' = [t \in TestCases |-> EmptyContext]
  /\ ev_ctx' = [t \in TestCases |-> [i \in EvaluatorIdx |-> EmptyContext]]
  /\ fn_seen' = [t \in TestCases |-> EmptyContext]
  /\ ev_seen' = [t \in TestCases |-> [i \in EvaluatorIdx |-> EmptyContext]]
  /\ UNCHANGED << config, log >>

Next ==
  \/ \E ok \in PostOutcomes : RunTestStart(ok)
  \/ \E t \in TestCases : SemCoroWake(t)
  \/ \E t \in TestCases : \E v \in Outputs(t) : FnReturn(t, v)
  \/ \E t \in TestCases : FnRaise(t)
  \/ \E t \in TestCases, ok \in PostOutcomes : PostFnError(t, ok)
  \/ \E t \in TestCases, ok \in PostOutcomes : PostResults(t, ok)
  \/ \E t \in TestCases, i \in EvaluatorIdx : EvSemCoroWake(t, i)
  \/ \E t \in TestCases, i \in EvaluatorIdx :
       \E r \in OptEvaluations(Evaluator(i)) : EvaluateReturn(t, i, r)
  \/ \E t \in TestCases, i \in EvaluatorIdx : EvaluateRaise(t, i)
  \/ \E t \in TestCases, i \in EvaluatorIdx, ok \in PostOutcomes : PostEvaluatorError(t, i, ok)
  \/ \E t \in TestCases, i \in EvaluatorIdx, ok \in PostOutcomes : PostEvals(t, i, ok)
  \/ \E t \in TestCases : EvaluatorsGathered(t)
  \/ TestCasesGathered
  \/ \E ok \in PostOutcomes : PostEnd(ok)

Spec == Init /\ [][Next]_vars
SpecConfig == InitConfig /\ [][Next]_vars
SpecTelemetry == InitTelemetry /\ [][Next]_vars

\* The event loop runs every callback that is ready, and every invocation of
\* user code and every post finishes: a step that can be taken is taken.
\* One caller that runs the suite up to MaxRuns times, one run after the other.
NextRuns == Next \/ TestAgain
SpecRuns == InitRuns /\ [][NextRuns]_vars

SpecFair == Init /\ [][Next]_vars /\ WF_vars(Next)
SpecTelemetryFair == InitTelemetry /\ [][Next]_vars /\ WF_vars(Next)

\* A run whose collector fails /results posts only: every other post returns.
NextResultsDown ==
  \/ RunTestStart(TRUE)
  \/ \E t \in TestCases : SemCoroWake(t)
  \/ \E t \in TestCases : \E v \in Outputs(t) : FnReturn(t, v)
  \/ \E t \in TestCases : FnRaise(t)
  \/ \E t \in TestCases : PostFnError(t, TRUE)
  \/ \E t \in TestCases, ok \in BOOLEAN : PostResults(t, ok)
  \/ \E t \in TestCases, i \in EvaluatorIdx : EvSemCoroWake(t, i)
  \/ \E t \in TestCases, i \in EvaluatorIdx :
       \E r \in OptEvaluations(Evaluator(i)) : EvaluateReturn(t, i, r)
  \/ \E t \in TestCases, i \in EvaluatorIdx : EvaluateRaise(t, i)
  \/ \E t \in TestCases, i \in EvaluatorIdx : PostEvaluatorError(t, i, TRUE)
  \/ \E t \in TestCases, i \in EvaluatorIdx : PostEvals(t, i, TRUE)
  \/ \E t \in TestCases : EvaluatorsGathered(t)
  \/ TestCasesGathered
  \/ PostEnd(TRUE)
SpecResultsDown == InitResultsDown /\ [][NextResultsDown]_vars /\ WF_vars(NextResultsDown)


\* ------------------------------------------------------------ the claims
\* Positions in the log of the posts to `path`, and of those about test case t.
Events(path) == {j \in 1..Len(log) : log[j].path = path}
EventsOf(path, t) == {j \in Events(path) : log[j].testCaseHash = cached_hash(t)}
PerTestCaseEvents == Events("/results") \cup Events("/evals") \cup Events("/errors")

\* The post at position j names evaluator id.
Names(j, id) == "evaluatorExternalId" \in DOMAIN log[j] /\ log[j].evaluatorExternalId = id

UserCodeInvoked ==
  \E t \in TestCases : fn_calls[t] > 0 \/ \E i \in EvaluatorIdx : ev_calls[t][i] > 0

\* C1: /start is reported exactly once per run and before everything else:
\* once run_test has passed its first post the log holds exactly one /start,
\* at position 1, every /results, /evals and /errors event sits after it, and
\* no user code has been invoked while the log holds no /start.
C1_StartOnceAndFirst ==
  /\ Cardinality(Events("/start")) <= 1
  /\ run_pc /= "NotStarted" => Events("/start") = {1}
  /\ run_pc = "NotStarted" => log = << >>
  /\ \A j \in PerTestCaseEvents : 1 \in Events("/start") /\ j > 1
  /\ UserCodeInvoked => 1 \in Events("/start")

C1_Witness ==
  /\ Events("/start") = {1}
  /\ Events("/results") /= {}
  /\ Events("/evals") /= {}
  /\ Events("/errors") /= {}

\* C2: /end is reported exactly once, after every /results, /evals and
\* /errors event, and only when no unit is in flight: the log holds at most
\* one /end, it is the last entry, the run has ended exactly when it is
\* there, and then every test-case unit and every evaluator unit that was
\* created is in a terminal state.
C2_EndOnceAndLast ==
  /\ Cardinality(Events("/end")) <= 1
  /\ \A j \in Events("/end") : j = Len(log)
  /\ run_pc = "Ended" <=> Events("/end") /= {}
  /\ Events("/end") /= {} =>
       /\ \A t \in TestCases : tc_pc[t] \in TcTerminal
       /\ \A t \in TestCases, i \in EvaluatorIdx :
            ev_pc[t][i] \in EvTerminal \cup {"NotCreated"}

C2_Witness ==
  /\ Events("/end") = {Len(log)}
  /\ Events("/evals") /= {}
  /\ Events("/errors") /= {}
  /\ \E t \in TestCases : \A i \in EvaluatorIdx : ev_pc[t][i] = "Done"

\* The test-case units inside fn.
Invoking == {t \in TestCases : tc_pc[t] = "Invoking"}

\* C3: with max_test_case_concurrency = k >= 1, at most k test-case units
\* are Invoking (inside fn) at the same time, whether fn runs on the loop or
\* on the thread pool.
C3_InvokingBounded ==
  max_test_case_concurrency >= 1 =>
    Cardinality(Invoking) <= max_test_case_concurrency

\* More test cases than slots: one unit is Invoking, all slots are taken and
\* another unit waits at the gate.
C3_Witness ==
  /\ NumTestCases > max_test_case_concurrency
  /\ Cardinality(Invoking) = max_test_case_concurrency
  /\ \E t \in TestCases : tc_pc[t] = "Waiting"

\* C4: when fn threw for test case T there is no /results and no /evals
\* event for T, no evaluator was invoked for T, at most one /errors event
\* for T exists and it carries no evaluatorExternalId, and once T's unit has
\* ended there is exactly one.
C4_FnFailureSuppresses ==
  \A t \in TestCases :
    fn_raised[t] =>
      /\ EventsOf("/results", t) = {}
      /\ EventsOf("/evals", t) = {}
      /\ \A i \in EvaluatorIdx : ev_calls[t][i] = 0
      /\ Cardinality(EventsOf("/errors", t)) <= 1
      /\ \A j \in EventsOf("/errors", t) : "evaluatorExternalId" \notin DOMAIN log[j]
      /\ tc_pc[t] = "Done" => Cardinality(EventsOf("/errors", t)) = 1

C4_Witness ==
  \E t \in TestCases :
    /\ fn_raised[t]
    /\ tc_pc[t] = "Done"
    /\ Cardinality(EventsOf("/errors", t)) = 1
    /\ \E u \in TestCases : EventsOf("/evals", u) /= {}

\* C5: when an evaluator threw for test case T and its unit has ended,
\* exactly one /errors event for T names that evaluator, no /evals event for
\* T names it, and every other evaluator of T that ended with an Evaluation
\* has exactly one /evals event for T.
C5_EvaluatorFailureNamed ==
  \A t \in TestCases, i \in EvaluatorIdx :
    (ev_raised[t][i] /\ ev_pc[t][i] = "Done") =>
      /\ Cardinality({j \in EventsOf("/errors", t) : Names(j, Evaluator(i).id)}) = 1
      /\ {j \in EventsOf("/evals", t) : Names(j, Evaluator(i).id)} = {}
      /\ \A k \in EvaluatorIdx \ {i} :
           (ev_pc[t][k] = "Done" /\ evaluation[t][k] /= {}) =>
             Cardinality({j \in EventsOf("/evals", t) : Names(j, Evaluator(k).id)}) = 1

\* C6: when fn returned for test case T, whatever the value, and T's unit
\* has ended, exactly one /results event for T carries that output and every
\* evaluator was invoked once for T.
C6_SuccessReportsResult ==
  \A t \in TestCases :
    (tc_pc[t] = "Done" /\ ~fn_raised[t]) =>
      /\ Cardinality(EventsOf("/results", t)) = 1
      /\ \A j \in EventsOf("/results", t) : log[j].testCaseOutput = output[t]
      /\ \A i \in EvaluatorIdx : ev_calls[t][i] = 1

InvalidConfiguration ==
  max_test_case_concurrency <= 0 \/ max_evaluator_concurrency <= 0

\* C7: with max_test_case_concurrency <= 0 or max_evaluator_concurrency <= 0
\* the call is refused before the run starts: nothing is posted, no user
\* code is invoked, and once run_test has moved the caller has the error.
C7_InvalidLimitRejected ==
  InvalidConfiguration =>
    /\ log = << >>
    /\ ~UserCodeInvoked
    /\ run_pc /= "NotStarted" => caller = "raised"

\* C8: a failed telemetry post never reaches the caller and never ends the
\* run early: test() does not raise.
C8_TelemetryFailureContained ==
  /\ caller /= "raised"
  /\ run_pc /= "Raised"

\* C9: test() returns normally even when fn throws for every test case: the
\* call never raises, the run can always go on until it has ended, and when
\* it has ended with every fn call thrown the log holds one /start, one
\* /end, one /errors per test case and no /results or /evals.
C9_AllFailedRunReturns ==
  /\ caller /= "raised"
  /\ caller = "blocked" => ENABLED Next
  /\ (run_pc = "Ended" /\ \A t \in TestCases : fn_raised[t]) =>
       /\ caller = "returned"
       /\ Cardinality(Events("/start")) = 1
       /\ Cardinality(Events("/end")) = 1
       /\ \A t \in TestCases : Cardinality(EventsOf("/errors", t)) = 1
       /\ Cardinality(Events("/errors")) = NumTestCases
       /\ Events("/results") = {}
       /\ Events("/evals") = {}

C9_Witness ==
  /\ caller = "returned"
  /\ \A t \in TestCases : fn_raised[t]
  /\ Cardinality(Events("/errors")) = NumTestCases

\* C10: within one test case the /results event precedes every /evals
\* event, and no evaluator is invoked for a test case whose /results event
\* is not in the log yet.
C10_ResultsBeforeEvals ==
  \A t \in TestCases :
    /\ \A j \in EventsOf("/evals", t) : \E r \in EventsOf("/results", t) : r < j
    /\ \A i \in EvaluatorIdx : ev_calls[t][i] > 0 => EventsOf("/results", t) /= {}

C10_Witness ==
  \E t \in TestCases :
    /\ Cardinality(EventsOf("/evals", t)) = NumEvaluators
    /\ \E u \in TestCases : u /= t /\ EventsOf("/results", u) /= {} /\ EventsOf("/evals", u) = {}

\* C11: user code that runs for test case T sees the RunContext of T and of
\* its run: every fn invocation and every evaluator invocation, on the loop
\* or on the thread pool, ran in the context {test_id, T}, and while units of
\* different test cases run together each task's context is its own.
C11_ContextPerUnit ==
  \A t \in TestCases :
    /\ fn_calls[t] > 0 => fn_seen[t] = RunContext(t)
    /\ \A i \in EvaluatorIdx : ev_calls[t][i] > 0 => ev_seen[t][i] = RunContext(t)
    /\ \A u \in TestCases :
         (u /= t /\ tc_ctx[t] /= EmptyContext) => tc_ctx[u] /= tc_ctx[t]

\* Two test cases inside blocking evaluators at the same time.
C11_Witness ==
  \E t, u \in TestCases :
    /\ t /= u
    /\ \E i, j \in EvaluatorIdx : {<<t, i>>, <<u, j>>} \subseteq executor
    /\ ~fn_is_coroutine

\* Every evaluator of the run returns Evaluations without a threshold.
NoThresholds == \A i \in EvaluatorIdx : ~Truthy(Evaluator(i).threshold)

\* No user code failed: fn never threw, and every evaluator that was invoked
\* returned an Evaluation.
AllSucceeded ==
  \A t \in TestCases :
    /\ ~fn_raised[t]
    /\ \A i \in EvaluatorIdx :
         ev_pc[t][i] \in EvTerminal => (~ev_raised[t][i] /\ evaluation[t][i] /= {})

\* C12: a finished run in which fn always succeeded and every evaluator
\* succeeded with an Evaluation without threshold has reported exactly one
\* /start, one /results per test case, one /evals per test case and
\* evaluator with no threshold key, one /end and no /errors.
C12_AllSuccessCounts ==
  (run_pc = "Ended" /\ NoThresholds /\ AllSucceeded) =>
    /\ Cardinality(Events("/start")) = 1
    /\ Cardinality(Events("/end")) = 1
    /\ Events("/errors") = {}
    /\ \A t \in TestCases :
         /\ Cardinality(EventsOf("/results", t)) = 1
         /\ \A i \in EvaluatorIdx :
              Cardinality({j \in EventsOf("/evals", t) : Names(j, Evaluator(i).id)}) = 1
    /\ Cardinality(Events("/results")) = NumTestCases
    /\ Cardinality(Events("/evals")) = NumTestCases * NumEvaluators
    /\ \A j \in Events("/evals") : "threshold" \notin DOMAIN log[j]

\* Every unit has had its slot and has ended: fn was invoked once for every
\* test case, and every evaluator unit that was created was invoked once.
AllUnitsServed ==
  \A t \in TestCases :
    /\ fn_calls[t] = 1
    /\ tc_pc[t] \in TcTerminal
    /\ \A i \in EvaluatorIdx :
         ev_pc[t][i] /= "NotCreated" => (ev_calls[t][i] = 1 /\ ev_pc[t][i] \in EvTerminal)

\* C13: with limits >= 1 and under fair scheduling no unit starves: every
\* test-case unit and every evaluator unit put before a gate eventually gets
\* a slot and ends, and the run eventually reports /end.
C13_NoStarvation ==
  <>(run_pc = "Ended" /\ Events("/end") /= {} /\ AllUnitsServed)

\* A finished run in which both gates had more units than slots.
C13_Witness ==
  /\ run_pc = "Ended"
  /\ max_test_case_concurrency < NumTestCases
  /\ max_evaluator_concurrency < NumEvaluators
  /\ \E t \in TestCases : \A i \in EvaluatorIdx : ev_calls[t][i] = 1

\* This step is the one in which the unit raises out of its coroutine.
UnitFails(t) == tc_pc[t] /= "Raised" /\ tc_pc'[t] = "Raised"
EvUnitFails(t, i) == ev_pc[t][i] /= "Raised" /\ ev_pc'[t][i] = "Raised"

\* The step of a failing unit gives the slot back and touches no sibling, no
\* waiter and not the code that waits on the gate; the wait on a gate ends
\* only when every unit has ended, and ends by returning.
GateContainsStep ==
  /\ \A t \in TestCases :
       UnitFails(t) =>
         /\ sem_value' = sem_value + 1
         /\ sem_waiters' = sem_waiters
         /\ \A u \in TestCases \ {t} : tc_pc'[u] = tc_pc[u]
         /\ ev_pc' = ev_pc
         /\ run_pc' = run_pc /\ caller' = caller
  /\ \A t \in TestCases, i \in EvaluatorIdx :
       EvUnitFails(t, i) =>
         /\ ev_sem_value'[t] = ev_sem_value[t] + 1
         /\ ev_sem_waiters' = ev_sem_waiters
         /\ \A j \in EvaluatorIdx \ {i} : ev_pc'[t][j] = ev_pc[t][j]
         /\ \A u \in TestCases \ {t} : ev_pc'[u] = ev_pc[u]
         /\ tc_pc' = tc_pc
         /\ run_pc' = run_pc /\ caller' = caller
  /\ (run_pc = "Started" /\ run_pc' /= "Started") =>
       /\ run_pc' = "Ending" /\ caller' = caller
       /\ \A t \in TestCases : tc_pc[t] \in TcTerminal
  /\ \A t \in TestCases :
       (tc_pc[t] = "Evaluating" /\ tc_pc'[t] /= "Evaluating") =>
         /\ tc_pc'[t] = "Done"
         /\ \A i \in EvaluatorIdx : ev_pc[t][i] \in EvTerminal

\* Once a unit has failed at a gate, every unit of that gate has been
\* admitted, has run and has ended, and the wait on the gate is over.
GateDrained ==
  /\ (\E t \in TestCases : tc_pc[t] = "Raised") =>
       /\ \A u \in TestCases : fn_calls[u] = 1 /\ tc_pc[u] \in TcTerminal
       /\ run_pc \notin {"NotStarted", "Started"}
  /\ \A t \in TestCases :
       (\E i \in EvaluatorIdx : ev_pc[t][i] = "Raised") =>
         /\ \A j \in EvaluatorIdx : ev_calls[t][j] = 1 /\ ev_pc[t][j] \in EvTerminal
         /\ tc_pc[t] = "Done"

\* C14: a failure of a unit under a gate stays inside the gate: the failing
\* step releases the unit's slot and cancels no sibling, every unit of the
\* gate is in the end admitted, run and ended, and the wait on the gate
\* returns instead of raising (test-case gate and evaluator gate alike).
C14_GateContainsFailure ==
  /\ [][GateContainsStep]_vars
  /\ <>[]GateDrained

\* A unit failed at each gate while a sibling was still waiting for the one
\* slot, and both waits have returned.
C14_Witness ==
  /\ max_test_case_concurrency = 1 /\ max_evaluator_concurrency = 1
  /\ tc_pc[1] = "Raised" /\ fn_calls[2] = 1
  /\ \E t \in TestCases : ev_pc[t][1] = "Raised" /\ ev_pc[t][2] = "Done" /\ tc_pc[t] = "Done"
  /\ run_pc = "Ending"

\* Evaluator i was invoked for test case t and returned None.
ReturnedAbsent(t, i) ==
  /\ ev_calls[t][i] = 1
  /\ ev_pc[t][i] = "Done"
  /\ ~ev_raised[t][i]
  /\ evaluation[t][i] = {}

\* C15: when an evaluator returned None for test case T nothing is reported
\* for the pair: no /evals and no /errors event of T names the evaluator and
\* T has no more /errors events than evaluators that threw; the unit has
\* ended, every other evaluator of T that ended with an Evaluation has its
\* one /evals event, and a finished run has T's unit ended by returning.
C15_AbsentEvaluationDropped ==
  \A t \in TestCases, i \in EvaluatorIdx :
    ReturnedAbsent(t, i) =>
      /\ \A j \in EventsOf("/evals", t) \cup EventsOf("/errors", t) :
           ~Names(j, Evaluator(i).id)
      /\ Cardinality(EventsOf("/errors", t))
           <= Cardinality({k \in EvaluatorIdx : ev_raised[t][k]})
      /\ \A k \in EvaluatorIdx \ {i} :
           (ev_pc[t][k] = "Done" /\ evaluation[t][k] /= {}) =>
             Cardinality({j \in EventsOf("/evals", t) : Names(j, Evaluator(k).id)}) = 1
      /\ run_pc = "Ended" => tc_pc[t] = "Done"

\* One evaluator returned None, the other an Evaluation, in a finished run.
C15_Witness ==
  /\ run_pc = "Ended"
  /\ \E t \in TestCases, i, k \in EvaluatorIdx :
       /\ ReturnedAbsent(t, i)
       /\ i /= k /\ evaluation[t][k] /= {}
       /\ \E j \in EventsOf("/evals", t) : Names(j, Evaluator(k).id)

\* C16: test() returns only after /end of its run is in the log, so the
\* runs of one caller do not interleave: when test() has returned the last
\* event is /end, every /start but the first comes directly after the /end of
\* the run before it, and every /end but the last is directly followed by
\* the /start of the next run.
C16_RunsNotInterleaved ==
  /\ caller = "returned" => (log /= << >> /\ log[Len(log)].path = "/end")
  /\ \A j \in Events("/start") : j = 1 \/ log[j - 1].path = "/end"
  /\ \A j \in Events("/end") : j = Len(log) \/ log[j + 1].path = "/start"
  /\ Cardinality(Events("/end")) <= Cardinality(Events("/start"))
  /\ Cardinality(Events("/start")) <= Cardinality(Events("/end")) + 1

\* Two runs have ended, each with events of its own between /start and /end.
C16_Witness ==
  /\ caller = "returned"
  /\ Cardinality(Events("/end")) = MaxRuns
  /\ \E j \in Events("/end") :
       /\ j < Len(log)
       /\ \E a \in 1..(j - 1) : log[a].path = "/results"
       /\ \E b \in (j + 1)..Len(log) : log[b].path = "/evals"

\* The evaluator units of test case t that hold a slot of t's evaluator gate.
EvHolders(t) == {i \in EvaluatorIdx : ev_pc[t][i] \in {"Evaluating", "Failed", "Completed"}}

\* C17: the evaluator gate belongs to one test case and sits inside that test
\* case's slot: per test case at most max_evaluator_concurrency evaluators
\* hold a slot, the slots of one test case are not taken by another's
\* evaluators, an evaluator waits only while a sibling holds a slot, and
\* neither gate is stuck: a free slot admits the first waiter, and the run
\* can always take a step until test() has returned.
C17_EvaluatorGateNests ==
  /\ \A t \in TestCases :
       /\ Cardinality(EvHolders(t)) <= max_evaluator_concurrency
       /\ tc_pc[t] = "Evaluating" =>
            ev_sem_value[t] + Cardinality(EvHolders(t)) = max_evaluator_concurrency
       /\ EvHolders(t) /= {} => tc_pc[t] = "Evaluating"
       /\ ev_sem_waiters[t] /= << >> =>
            /\ tc_pc[t] = "Evaluating"
            /\ EvHolders(t) /= {} \/ ev_sem_value[t] > 0
            /\ ev_sem_value[t] > 0 => ENABLED EvSemCoroWake(t, Head(ev_sem_waiters[t]))
  /\ (sem_waiters /= << >> /\ sem_value > 0) => ENABLED SemCoroWake(Head(sem_waiters))
  /\ caller = "blocked" => ENABLED Next

\* Two test cases each have an evaluator in its one slot and another one
\* waiting: more evaluators run than max_evaluator_concurrency.
C17_Witness ==
  /\ max_evaluator_concurrency = 1
  /\ \A t \in TestCases :
       /\ Cardinality(EvHolders(t)) = 1
       /\ ev_sem_waiters[t] /= << >>

\* The events of test case t that name evaluator i.
PairEvals(t, i) == {j \in EventsOf("/evals", t) : Names(j, Evaluator(i).id)}
PairErrors(t, i) == {j \in EventsOf("/errors", t) : Names(j, Evaluator(i).id)}

\* C18: for every pair of a test case and an evaluator the evaluator is
\* invoked at most once and at most one event is reported: one /evals event
\* or one /errors event naming the evaluator, never both and never two of a
\* kind; an /evals event comes only from an Evaluation, an /errors event only
\* from a throw, and a test case has no more /evals events than evaluators
\* that returned an Evaluation and no more /errors events than throws.
C18_OneEventPerPair ==
  \A t \in TestCases, i \in EvaluatorIdx :
    /\ ev_calls[t][i] <= 1
    /\ Cardinality(PairEvals(t, i)) + Cardinality(PairErrors(t, i)) <= 1
    /\ PairEvals(t, i) /= {} => (ev_calls[t][i] = 1 /\ evaluation[t][i] /= {})
    /\ PairErrors(t, i) /= {} => (ev_calls[t][i] = 1 /\ ev_raised[t][i])
    /\ Cardinality(EventsOf("/evals", t))
         <= Cardinality({k \in EvaluatorIdx : evaluation[t][k] /= {}})
    /\ Cardinality(EventsOf("/errors", t))
         <= Cardinality({k \in EvaluatorIdx : ev_raised[t][k]}) + (IF fn_raised[t] THEN 1 ELSE 0)

\* A finished test case with an /evals event for one evaluator and an
\* /errors event for the other.
C18_Witness ==
  \E t \in TestCases, i, k \in EvaluatorIdx :
    /\ tc_pc[t] = "Done"
    /\ Cardinality(PairEvals(t, i)) = 1
    /\ Cardinality(PairErrors(t, k)) = 1

\* The test-case units that hold a slot of the test-case gate: from the
\* invocation of fn until run_test_case has returned or raised.
InProgress == {t \in TestCases : tc_pc[t] \in {"Invoking", "Failed", "Completed", "Evaluating"}}

\* The evaluator units that are inside evaluator.evaluate.
EvExecuting == {p \in TestCases \X EvaluatorIdx : ev_pc[p[1]][p[2]] = "Evaluating"}

\* C19: a test-case unit holds its slot from the invocation of fn until its
\* evaluators have all ended: the free slots and the units in progress add up
\* to max_test_case_concurrency, so at most that many test cases are in
\* progress, evaluators run only for test cases in progress, and at most
\* max_test_case_concurrency * max_evaluator_concurrency evaluators execute.
C19_SlotHeldThroughEvaluation ==
  /\ run_pc = "Started" => sem_value + Cardinality(InProgress) = max_test_case_concurrency
  /\ Cardinality(InProgress) <= max_test_case_concurrency
  /\ \A p \in EvExecuting : tc_pc[p[1]] = "Evaluating"
  /\ \A t \in TestCases :
       (\E i \in EvaluatorIdx : ev_pc[t][i] \notin {"NotCreated"} \cup EvTerminal) => t \in InProgress
  /\ Cardinality(EvExecuting) <= max_test_case_concurrency * max_evaluator_concurrency

\* With one test-case slot a test case has its evaluators running while the
\* other test case still waits for the slot.
C19_Witness ==
  /\ max_test_case_concurrency = 1
  /\ sem_waiters /= << >>
  /\ \E t \in TestCases : Cardinality({i \in EvaluatorIdx : <<t, i>> \in EvExecuting}) = NumEvaluators

\* fn returned an output for test case t and run_test_case is past the
\* /results post, but the collector has no /results event of t.
ResultsPostFailed(t) ==
  /\ output[t] /= None
  /\ tc_pc[t] \in {"Evaluating", "Done", "Raised"}
  /\ EventsOf("/results", t) = {}

\* What holds in every state after the /results post of test case t failed.
ResultsFailureSkipsEvaluation ==
  \A t \in TestCases :
    ResultsPostFailed(t) =>
      /\ tc_pc[t] = "Raised"
      /\ \A i \in EvaluatorIdx : ev_calls[t][i] = 0 /\ ev_pc[t][i] = "NotCreated"
      /\ EventsOf("/evals", t) = {} /\ EventsOf("/errors", t) = {}
      /\ \A u \in TestCases \ {t} :
           (tc_pc[u] = "Done" /\ output[u] /= None) =>
             /\ Cardinality(EventsOf("/results", u)) = 1
             /\ \A i \in EvaluatorIdx : ev_calls[u][i] = 1
      /\ run_pc \in {"Started", "Ending", "Ended"}
      /\ run_pc = "Ended" => log[Len(log)].path = "/end"

\* C20: when the /results post of test case T failed, no evaluator is invoked
\* for T and no /evals or /errors event of T is reported; the other test
\* cases run as they would, every one to its end, and the run reports /end.
C20_ResultsFailureSkipsEvaluation ==
  /\ []ResultsFailureSkipsEvaluation
  /\ <>[]((\E t \in TestCases : ResultsPostFailed(t)) =>
            /\ \A u \in TestCases : fn_calls[u] = 1 /\ tc_pc[u] \in TcTerminal
            /\ run_pc = "Ended" /\ caller = "returned"
            /\ Events("/end") = {Len(log)})

\* The /results post of one test case failed, the other test case has its
\* /results and /evals events, and /end is reported.
C20_Witness ==
  \E t, u \in TestCases :
    /\ ResultsPostFailed(t)
    /\ u /= t
    /\ EventsOf("/results", u) /= {} /\ EventsOf("/evals", u) /= {}
    /\ run_pc = "Ended" /\ log[Len(log)].path = "/end"

====
